---- MODULE Spec2Model ----
(***************************************************************************)
(* A model of vertiport_model.py: the constraint system the script hands   *)
(* to the MILP solver (lines 29-99), the solve (line 102) and the          *)
(* extraction and reporting of the Layout (lines 105-143).                 *)
(*                                                                         *)
(* The script's module-level constants (rows, cols, budget, M,             *)
(* fato_capacity) are the configuration; Init draws them from small sets,  *)
(* so that every statement is checked for each configuration.              *)
(*                                                                         *)
(* Numbers.  operations is a continuous variable; fato_capacity / 2 is a   *)
(* true division.  Every value the script can report is a multiple of      *)
(* 1/2, and the model keeps operations exactly as the integer              *)
(* operations2 = 2 * operations.                                           *)
(*                                                                         *)
(* The solver is opaque: when the constraint system has a solution, the    *)
(* solve returns ANY assignment that satisfies the constraints and         *)
(* maximises operations.  The script reads back place[...].X and           *)
(* operations.X only; the values of reachable, flow_balance and flow stay  *)
(* inside the solver, so the model keeps their existence, not their value. *)
(*                                                                         *)
(* A placement is enumerated as one label per cell, so line 56 (at most    *)
(* one component per cell) holds of every placement the model tries; the   *)
(* constraints are still stated on the binary variables place[i, c].       *)
(* The grids of the model have at most MaxCells cells, none of them an     *)
(* interior cell: lines 77-78 are modelled and constrain nothing here.     *)
(***************************************************************************)
EXTENDS Integers, Sequences, FiniteSets

VARIABLES rows, cols, budget, M, fato_capacity,   \* configuration (lines 6-26)
          pc,                                     \* position in the script
          status,                                 \* model.status
          X,                                      \* the solved assignment
          layout, count, used_money,              \* lines 107-124
          stdout, files,                          \* what the script emits
          run, first                              \* second solve: see Rerun

vars == <<rows, cols, budget, M, fato_capacity, pc, status, X,
          layout, count, used_money, stdout, files, run, first>>

-----------------------------------------------------------------------------
(* Bounds of the model. *)

\* largest number of rows or of columns of a grid
MaxDim == 3
\* largest number of cells of a grid
MaxCells == 6
\* largest number of cells of a grid that is solved twice
MaxCellsResolve == 4
\* largest value a flow variable takes in the model (it is capped by M too)
MaxFlow == 1

-----------------------------------------------------------------------------
(* Configuration: lines 5-26. *)

components == <<"F", "S", "T", "P">>

Comp == {components[k] : k \in 1..Len(components)}

cost == [c \in Comp |-> CASE c = "F" -> 40000
                          [] c = "S" -> 46000
                          [] c = "T" -> 40000
                          [] c = "P" -> 300000]

stand_capacity == 6

GridSizes == {g \in (1..MaxDim) \X (1..MaxDim) : g[1] * g[2] <= MaxCells}

\* 0; less than one pad + stand + taxiway (126000); exactly that; room for a
\* terminal and a taxiway (340000)
Budgets == {0, 100000, 126000, 340000}

NegativeBudgets == {-1}

BigMs == {1, 1000}

FatoCapacities == {30, 3}

cells == (0 .. rows - 1) \X (0 .. cols - 1)

source == <<0, 0>>

Abs(n) == IF n < 0 THEN -n ELSE n

Manhattan(a, b) == Abs(a[1] - b[1]) + Abs(a[2] - b[2])

Min2(a, b) == IF a <= b THEN a ELSE b

-----------------------------------------------------------------------------
(* Decision variables: lines 31-42.                                        *)
(* A placement gives every cell one label, a component or "-" (nothing);   *)
(* place(p, i, c) is the value of the binary variable place[i, c] in it.   *)
(* The solver's other variables: reachable (binary), flow_balance and      *)
(* flow (continuous, with gurobipy's default lower bound 0).               *)

Labels == Comp \cup {"-"}

Placements == [cells -> Labels]

place(p, i, c) == IF p[i] = c THEN 1 ELSE 0

flowEdges == {e \in cells \X cells : Manhattan(e[1], e[2]) = 1}

FlowValues == 0 .. Min2(M, MaxFlow)

RECURSIVE SumOver(_, _)
SumOver(S, f) ==
  IF S = {} THEN 0
  ELSE LET x == CHOOSE y \in S : TRUE IN f[x] + SumOver(S \ {x}, f)

NumPlaced(p, c) == Cardinality({i \in cells : place(p, i, c) = 1})

-----------------------------------------------------------------------------
(* The constraint system: lines 47-99. *)

\* fato_capacity // 2 in place of fato_capacity / 2: the half is truncated
HalfFatoCapacity2Floor == 2 * (fato_capacity \div 2)

\* line 48: fato_capacity / 2 is Python's true division, so twice the
\* coefficient of the pad count is fato_capacity itself, odd or even
HalfFatoCapacity2 == fato_capacity

\* lines 48-49, with operations = o2 / 2 (and the variable's lower bound 0)
CapacityConstr(p, o2) ==
  /\ o2 >= 0
  /\ o2 <= HalfFatoCapacity2 * NumPlaced(p, "F")
  /\ o2 <= 2 * stand_capacity * NumPlaced(p, "S")

\* line 52
PlacementCost(p) ==
  SumOver(Comp, [c \in Comp |-> cost[c] * NumPlaced(p, c)])

\* the sum of line 52 without the taxiways
BudgetConstrNoTaxiway(p) ==
  SumOver(Comp \ {"T"}, [c \in Comp |-> cost[c] * NumPlaced(p, c)]) <= budget

BudgetConstr(p) == PlacementCost(p) <= budget

\* line 56 with == 1 in place of <= 1
ExclusivityConstrExactlyOne(p) ==
  \A i \in cells :
    SumOver(Comp, [c \in Comp |-> IF p[i] = c THEN 1 ELSE 0]) = 1

\* lines 55-56
ExclusivityConstr(p) ==
  \A i \in cells :
    SumOver(Comp, [c \in Comp |-> place(p, i, c)]) <= 1

\* lines 59-66
get_neighbors(i) ==
  LET x == i[1]
      y == i[2]
  IN  (IF x > 0 THEN {<<x - 1, y>>} ELSE {})
      \cup (IF x < rows - 1 THEN {<<x + 1, y>>} ELSE {})
      \cup (IF y > 0 THEN {<<x, y - 1>>} ELSE {})
      \cup (IF y < cols - 1 THEN {<<x, y + 1>>} ELSE {})

TaxiNeighbors(p, i) ==
  Cardinality({n \in get_neighbors(i) : place(p, n, "T") = 1})

\* lines 69-73 without line 72
AdjacencyConstrNoStand(p) ==
  \A i \in cells :
    /\ TaxiNeighbors(p, i) >= place(p, i, "F")
    /\ TaxiNeighbors(p, i) >= place(p, i, "P")

\* lines 69-73
AdjacencyConstr(p) ==
  \A i \in cells :
    /\ TaxiNeighbors(p, i) >= place(p, i, "F")
    /\ TaxiNeighbors(p, i) >= place(p, i, "S")
    /\ TaxiNeighbors(p, i) >= place(p, i, "P")

\* lines 77-78
SitingConstr(p) ==
  \A i \in cells :
    (0 < i[1] /\ i[1] < rows - 1 /\ 0 < i[2] /\ i[2] < cols - 1)
      => place(p, i, "F") = 0

\* lines 80-81 with abs(dx) + abs(dy) <= 1
close_cellsRadius1(i) ==
  {j \in cells : Abs(j[1] - i[1]) + Abs(j[2] - i[2]) <= 1 /\ j # i}

\* lines 80-81
close_cells(i) ==
  {<<i[1] + dx, i[2] + dy>> : dx \in -2 .. 2, dy \in -2 .. 2} \cap
  {j \in cells : /\ Abs(j[1] - i[1]) + Abs(j[2] - i[2]) <= 2
                 /\ j # i}

\* lines 82-83
SpacingConstr(p) ==
  \A i \in cells : \A j \in close_cells(i) :
    place(p, j, "F") <= (1 - place(p, i, "F")) * M

in_flow(f, i) == SumOver({e \in flowEdges : e[2] = i}, f)

out_flow(f, i) == SumOver({e \in flowEdges : e[1] = i}, f)

\* lines 87-99 for given values of reachable (r) and flow (f); flow_balance[i]
\* is the value line 93 gives it, within its own lower bound 0
FlowConstr(p, r, f) ==
  /\ r[source] = 1
  /\ \A i \in cells :
       LET fb == out_flow(f, i) - in_flow(f, i)
       IN  /\ fb >= 0
           /\ fb <= M * r[i]
           /\ fb >= (-M) * r[i]
  /\ \A e \in flowEdges : f[e] <= M * place(p, e[1], "T")

\* some values of reachable, flow_balance and flow complete the placement
ConnectivityConstr(p) ==
  \E r \in [cells -> {0, 1}] :
    /\ r[source] = 1
    /\ \E f \in [flowEdges -> FlowValues] : FlowConstr(p, r, f)

\* the placement satisfies every constraint (with operations = 0)
Feasible(p) ==
  /\ ExclusivityConstr(p)
  /\ SitingConstr(p)
  /\ BudgetConstr(p)
  /\ AdjacencyConstr(p)
  /\ SpacingConstr(p)
  /\ CapacityConstr(p, 0)
  /\ ConnectivityConstr(p)

\* the largest 2 * operations lines 48-49 admit with the placement
OpsBound2(p) ==
  Min2(HalfFatoCapacity2 * NumPlaced(p, "F"),
       2 * stand_capacity * NumPlaced(p, "S"))

FeasiblePlacements == {p \in Placements : Feasible(p)}

-----------------------------------------------------------------------------
(* The script. *)

NoSolution == [place |-> <<>>, operations2 |-> 0]

NoRun == [status |-> "NONE", count |-> <<>>, used_money |-> 0, operations2 |-> 0]

InitWith(budgets) ==
  /\ \E g \in GridSizes : rows = g[1] /\ cols = g[2]
  /\ budget \in budgets
  /\ M \in BigMs
  /\ fato_capacity \in FatoCapacities
  /\ pc = "build"
  /\ status = "LOADED"
  /\ X = NoSolution
  /\ layout = <<>>
  /\ count = <<>>
  /\ used_money = 0
  /\ stdout = <<>>
  /\ files = {}
  /\ run = 1
  /\ first = NoRun

Init == InitWith(Budgets)

\* lines 29-99: the variables and constraints are registered with the model
BuildModel ==
  /\ pc = "build"
  /\ pc' = "built"
  /\ UNCHANGED <<rows, cols, budget, M, fato_capacity, status, X, layout,
                 count, used_money, stdout, files, run, first>>

\* the optimum of the objective (line 45) over a non-empty set of placements,
\* as 2 * operations
OptimalValue(feas) ==
  CHOOSE b \in {OpsBound2(p) : p \in feas} :
    \A p \in feas : OpsBound2(p) <= b

\* line 102 without the objective of line 45: any solution is returned, with
\* the largest operations its placement admits
OptimizeAnySolution ==
  /\ pc = "built"
  /\ pc' = "solved"
  /\ \E feas \in {FeasiblePlacements} :
       IF feas = {}
       THEN /\ status' = "INFEASIBLE"
            /\ X' = NoSolution
       ELSE /\ status' = "OPTIMAL"
            /\ \E p \in feas :
                 X' = [place |-> p, operations2 |-> OpsBound2(p)]
  /\ UNCHANGED <<rows, cols, budget, M, fato_capacity, layout,
                 count, used_money, stdout, files, run, first>>

\* line 102: the constraint system is solved once.  No solution: INFEASIBLE.
\* Otherwise OPTIMAL, with any placement that attains the optimum.  (The
\* objective is bounded by lines 48-49, so the model is never unbounded, and
\* the script sets no time limit.)
Optimize ==
  /\ pc = "built"
  /\ pc' = "solved"
  /\ \E feas \in {FeasiblePlacements} :
       IF feas = {}
       THEN /\ status' = "INFEASIBLE"
            /\ X' = NoSolution
       ELSE \E best \in {OptimalValue(feas)} :
              /\ status' = "OPTIMAL"
              /\ \E p \in feas :
                   /\ OpsBound2(p) = best
                   /\ X' = [place |-> p, operations2 |-> best]
  /\ UNCHANGED <<rows, cols, budget, M, fato_capacity, layout,
                 count, used_money, stdout, files, run, first>>

\* lines 110-114 for one cell: the components whose variable exceeds 0.5, by
\* their position in components (2 * x > 1 is x > 0.5)
SwitchedOn(p, i) ==
  {k \in 1 .. Len(components) : 2 * place(p, i, components[k]) > 1}

\* line 113 runs for every switched-on component in turn: the last one stays
LabelOf(p, i) ==
  IF SwitchedOn(p, i) = {} THEN "-"
  ELSE components[CHOOSE k \in SwitchedOn(p, i) :
                    \A j \in SwitchedOn(p, i) : j <= k]

\* line 114
CountOf(p, c) ==
  Cardinality({i \in cells : 2 * place(p, i, c) > 1})

\* lines 105-114: without an optimal solution the script ends here, having
\* printed and written nothing
ExtractLayout ==
  /\ pc = "solved"
  /\ IF status = "OPTIMAL"
     THEN /\ pc' = "extracted"
          /\ stdout' = Append(stdout, <<"Best number of operations:",
                                        X.operations2>>)
          /\ layout' = [i \in cells |-> LabelOf(X.place, i)]
          /\ count' = [c \in Comp |-> CountOf(X.place, c)]
     ELSE /\ pc' = "done"
          /\ UNCHANGED <<stdout, layout, count>>
  /\ UNCHANGED <<rows, cols, budget, M, fato_capacity, status, X,
                 used_money, files, run, first>>

LayoutRow(r) == [j \in 1 .. cols |-> layout[<<r, j - 1>>]]

LayoutRows == [r \in 1 .. rows |-> LayoutRow(r - 1)]

CountRows == [k \in 1 .. Len(components) |->
               <<components[k], count[components[k]]>>]

\* line 124
UsedMoney == SumOver(Comp, [c \in Comp |-> cost[c] * count[c]])

\* lines 116-125
PrintReport ==
  /\ pc = "extracted"
  /\ pc' = "reported"
  /\ used_money' = UsedMoney
  /\ stdout' = stdout \o <<<<"Grid Layout:", LayoutRows>>,
                            <<"Component Counts:", CountRows>>,
                            <<"Budget Used:", UsedMoney, budget>>>>
  /\ UNCHANGED <<rows, cols, budget, M, fato_capacity, status, X,
                 layout, count, files, run, first>>

WriteFile(name, content) ==
  {f \in files : f.name # name} \cup {[name |-> name, rows |-> content]}

\* lines 127-143
SaveCsv ==
  /\ pc = "reported"
  /\ pc' = "done"
  /\ \E saved \in {WriteFile("layout.csv",
                               <<<<"Grid Layout", rows, cols>>>> \o LayoutRows)} :
       files' = {f \in saved : f.name # "summary.csv"} \cup
                {[name |-> "summary.csv",
                  rows |-> <<<<"Component", "Count">>>> \o CountRows \o
                           << <<>>,
                              <<"Total Operations", X.operations2>>,
                              <<"Budget Used", used_money>>,
                              <<"Budget Limit", budget>> >>]}
  /\ UNCHANGED <<rows, cols, budget, M, fato_capacity, status, X,
                 layout, count, used_money, stdout, run, first>>

Next == BuildModel \/ Optimize \/ ExtractLayout \/ PrintReport \/ SaveCsv

Spec == Init /\ [][Next]_vars

\* The script accepts any budget: it does not check its configuration.
InitAnyBudget == InitWith(Budgets \cup NegativeBudgets)

\* line 102, when the solve is stopped before it proves anything (the user
\* interrupts it, or the solver's environment sets a limit): the status is
\* neither OPTIMAL nor INFEASIBLE
OptimizeStopped ==
  /\ pc = "built"
  /\ pc' = "solved"
  /\ status' = "TIME_LIMIT"
  /\ X' = NoSolution
  /\ UNCHANGED <<rows, cols, budget, M, fato_capacity, layout,
                 count, used_money, stdout, files, run, first>>

NextAnyStatus == Next \/ OptimizeStopped

SpecAnyStatus == InitAnyBudget /\ [][NextAnyStatus]_vars

\* The same configuration is solved again: the script is started a second
\* time.  The first run's aggregates are kept for comparison; the files the
\* first run wrote stay on disk.
Rerun ==
  /\ pc = "done"
  /\ run = 1
  /\ run' = 2
  /\ first' = [status |-> status, count |-> count, used_money |-> used_money,
               operations2 |-> X.operations2]
  /\ pc' = "build"
  /\ status' = "LOADED"
  /\ X' = NoSolution
  /\ layout' = <<>>
  /\ count' = <<>>
  /\ used_money' = 0
  /\ stdout' = <<>>
  /\ UNCHANGED <<rows, cols, budget, M, fato_capacity, files>>

NextResolve == Next \/ Rerun

InitResolve == Init /\ rows * cols <= MaxCellsResolve

SpecResolve == InitResolve /\ [][NextResolve]_vars

-----------------------------------------------------------------------------
(* Vocabulary of the statements below. *)

\* the script has passed line 114: layout and count exist
Extracted == pc \in {"extracted", "reported", "done"}

\* the script has passed line 102
Solved == pc \in {"solved", "extracted", "reported", "done"}

\* the 4-neighbours of a cell, by distance (not by get_neighbors)
Adjacent(i, j) == Manhattan(i, j) = 1

\* the cells a chain of taxiways links to the source in a labelling: the
\* source, and every cell next to a linked cell that is the source or a taxiway
RECURSIVE LinkedFrom(_, _)
LinkedFrom(R, lab) ==
  LET more == R \cup {j \in cells : \E i \in R :
                        Adjacent(i, j) /\ (i = source \/ lab[i] = "T")}
  IN  IF more = R THEN R ELSE LinkedFrom(more, lab)

Linked(lab) == LinkedFrom({source}, lab)

\* no two distinct pads within Manhattan distance 2: the direct inequality
\* place[i,F] + place[j,F] <= 1 on every such pair
NoClosePads(lab) ==
  \A i \in cells : \A j \in cells :
    (i # j /\ Manhattan(i, j) <= 2)
      => (IF lab[i] = "F" THEN 1 ELSE 0) + (IF lab[j] = "F" THEN 1 ELSE 0) <= 1

\* the cost of a layout, cell by cell
LayoutCost(lab) ==
  SumOver({i \in cells : lab[i] # "-"},
          [i \in cells |-> IF lab[i] = "-" THEN 0 ELSE cost[lab[i]]])

LabelCount(lab, c) == Cardinality({i \in cells : lab[i] = c})

\* the cost of one pad, one stand and one taxiway
ClusterCost == cost["F"] + cost["S"] + cost["T"]

EmptyPlacement == [i \in cells |-> "-"]

\* the placement with every terminal removed
ClearTerminals(p) == [i \in cells |-> IF p[i] = "P" THEN "-" ELSE p[i]]

\* the whole report of a Layout: four prints, two files
LayoutReported ==
  /\ layout # <<>>
  /\ count # <<>>
  /\ Len(stdout) = 4
  /\ {f.name : f \in files} = {"layout.csv", "summary.csv"}

\* nothing of a Layout exists
NothingReported ==
  /\ layout = <<>>
  /\ count = <<>>
  /\ stdout = <<>>
  /\ files = {}

-----------------------------------------------------------------------------
(* C1.  Connectivity: in every produced Layout every occupied cell is      *)
(* linked to the source cell (0,0) by a chain of Taxiway cells.            *)
(* The constraints of lines 87-99 do not enforce it: reachable is tied to  *)
(* nothing but the source, and reachable = 1 everywhere with flow = 0      *)
(* satisfies them for any placement.                                       *)
C1_Connectivity ==
  Extracted => \A i \in cells : layout[i] # "-" => i \in Linked(layout)

-----------------------------------------------------------------------------
(* C2.  Spacing law: once the constraints are registered, for every        *)
(* placement the big-M constraints of lines 80-83 hold exactly when no two *)
(* distinct pads lie within Manhattan distance 2 (for every M >= 1), so no *)
(* placement that satisfies the constraint system has two such pads, and   *)
(* neither has a produced Layout.                                          *)
C2_Spacing ==
  /\ pc = "built" =>
       \A p \in Placements :
         /\ SpacingConstr(p) <=> NoClosePads(p)
         /\ Feasible(p) => NoClosePads(p)
  /\ Extracted => NoClosePads(layout)

\* a Layout with two pads, under the smallest M
C2_Witness == pc = "done" /\ M = 1 /\ count["F"] >= 2

-----------------------------------------------------------------------------
(* C3.  Adjacency law: in every produced Layout each Pad, Stand or         *)
(* Terminal cell has a 4-neighbour labelled Taxiway; get_neighbors returns *)
(* exactly the 4-neighbours inside the grid, at most 4 of them.            *)
C3_Adjacency ==
  /\ \A i \in cells :
       /\ get_neighbors(i) = {j \in cells : Adjacent(i, j)}
       /\ Cardinality(get_neighbors(i)) <= 4
  /\ Extracted =>
       \A i \in cells :
         layout[i] \in {"F", "S", "P"}
           => \E j \in cells : Adjacent(i, j) /\ layout[j] = "T"

\* a Layout with a pad and a stand, each beside a taxiway
C3_Witness ==
  /\ pc = "done"
  /\ \E i \in cells : layout[i] = "F"
  /\ \E i \in cells : layout[i] = "S"

-----------------------------------------------------------------------------
(* C4.  Budget law: the cost recomputed from the extracted layout, which   *)
(* is what the script reports as used_money, never exceeds the budget.     *)
C4_Budget ==
  /\ Extracted => LayoutCost(layout) <= budget
  /\ pc \in {"reported", "done"} => used_money = LayoutCost(layout)

\* a Layout that spends the whole budget
C4_Witness == pc = "done" /\ budget > 0 /\ used_money = budget

-----------------------------------------------------------------------------
(* C5.  Throughput-bound law: in every produced Layout, operations is at   *)
(* most (fato_capacity / 2) * pads and at most stand_capacity * stands,    *)
(* with the counts of the Layout; the halving is exact, so operations      *)
(* reaches the smaller of the two bounds, half-integral for an odd         *)
(* capacity.  (All three lines are the statement times 2.)                 *)
C5_Throughput ==
  Extracted =>
    /\ X.operations2 <= fato_capacity * count["F"]
    /\ X.operations2 <= 2 * stand_capacity * count["S"]
    /\ X.operations2 = Min2(fato_capacity * count["F"],
                            2 * stand_capacity * count["S"])

\* one pad of capacity 3 gives 1.5 operations
C5_Witness ==
  pc = "done" /\ fato_capacity = 3 /\ count["F"] = 1 /\ X.operations2 = 3

-----------------------------------------------------------------------------
(* C6 as stated.  Two solves of one configuration that both end optimal    *)
(* give identical counts, budget used and throughput.                      *)
C6_Idempotence ==
  (run = 2 /\ pc = "done" /\ status = "OPTIMAL" /\ first.status = "OPTIMAL")
    => /\ count = first.count
       /\ used_money = first.used_money
       /\ X.operations2 = first.operations2

(* C6, amended.  Two solves of one configuration that both end optimal     *)
(* give the same throughput; the counts and the budget used are those of   *)
(* whichever optimal placement each solve returns.                         *)
C6_SameThroughput ==
  (run = 2 /\ Solved /\ status = "OPTIMAL" /\ first.status = "OPTIMAL")
    => X.operations2 = first.operations2

\* two optimal solves that differ in their counts
C6_Witness ==
  /\ run = 2 /\ pc = "done" /\ status = "OPTIMAL" /\ first.status = "OPTIMAL"
  /\ count # first.count
  /\ X.operations2 > 0

-----------------------------------------------------------------------------
(* C7 as stated.  With a budget too small for one pad + stand + taxiway    *)
(* the solve ends infeasible and no Layout is produced.                    *)
C7_Infeasible ==
  (pc = "done" /\ budget < ClusterCost)
    => status = "INFEASIBLE" /\ NothingReported

(* C7, amended.  With a budget from 0 up to, but not including, the cost   *)
(* of one pad + stand + taxiway, the empty placement satisfies the         *)
(* constraint system, the solve ends optimal with throughput 0, and a      *)
(* Layout is produced; with budget 0 that Layout is empty.                 *)
C7_ZeroThroughput ==
  (0 <= budget /\ budget < ClusterCost) =>
    /\ pc = "built" => Feasible(EmptyPlacement)
    /\ Solved => status = "OPTIMAL" /\ X.operations2 = 0
    /\ pc = "done" => LayoutReported
    /\ (Extracted /\ budget = 0) => layout = EmptyPlacement

\* a Layout with a pad and its taxiway, and no throughput
C7_Witness ==
  pc = "done" /\ budget < ClusterCost /\ count["F"] = 1 /\ count["T"] = 1

-----------------------------------------------------------------------------
(* C8.  1x1 grid: the sole cell has no neighbours and no flow edges; every *)
(* placement that satisfies the constraints has no Pad, Stand or Terminal; *)
(* the empty placement satisfies them; the solve ends optimal with         *)
(* throughput 0.                                                           *)
C8_OneByOne ==
  (rows = 1 /\ cols = 1) =>
    /\ get_neighbors(source) = {}
    /\ flowEdges = {}
    /\ pc = "built" =>
         /\ Feasible(EmptyPlacement)
         /\ \A p \in Placements : Feasible(p) => p[source] \in {"-", "T"}
    /\ Solved => status = "OPTIMAL" /\ X.operations2 = 0
    /\ Extracted => count["F"] = 0 /\ count["S"] = 0 /\ count["P"] = 0

\* a 1x1 Layout whose cell is a taxiway
C8_Witness == rows = 1 /\ cols = 1 /\ pc = "done" /\ layout[source] = "T"

-----------------------------------------------------------------------------
(* C9.  Status surface: when the script ends, a Layout has been produced   *)
(* exactly if the status is optimal, and for any other status the script   *)
(* has emitted something that tells the failure.                           *)
(* The script has no branch for it: after line 105 nothing is printed or   *)
(* written unless the status is OPTIMAL, and the script ends normally.     *)
C9_StatusSurface ==
  pc = "done" =>
    /\ LayoutReported <=> status = "OPTIMAL"
    /\ status # "OPTIMAL" => (stdout # <<>> \/ files # {})

-----------------------------------------------------------------------------
====
